---- MODULE Spec2Model ----
(***************************************************************************)
(* Model of the URL uploader bot (src/uploder.py): the message router, the *)
(* URL classifier, the two in-memory maps pending_downloads and            *)
(* pending_renames, the callback handler, the transfer pipeline            *)
(* handle_download_or_upload and the progress throttle                     *)
(* progress_for_pyrogram.                                                  *)
(*                                                                         *)
(* A text is a sequence of one-character strings, so that strip, lower,    *)
(* startswith, split and the two regular expressions are computed          *)
(* character by character as Python computes them.                         *)
(***************************************************************************)
EXTENDS Integers, Sequences, FiniteSets, TLC

(***************************************************************************)
(* Character classes and Python string functions.                          *)
(***************************************************************************)

\* Python's str.strip() removes these (the whitespace used by the model).
WhiteSpace == {" ", "\n"}

LowerLetters ==
  <<"a","b","c","d","e","f","g","h","i","j","k","l","m",
    "n","o","p","q","r","s","t","u","v","w","x","y","z">>

UpperLetters ==
  <<"A","B","C","D","E","F","G","H","I","J","K","L","M",
    "N","O","P","Q","R","S","T","U","V","W","X","Y","Z">>

Digits == {"0","1","2","3","4","5","6","7","8","9"}

Range(f) == {f[i] : i \in DOMAIN f}

Letters == Range(LowerLetters) \cup Range(UpperLetters)

\* \w of Python's re module (for the characters of the model).
WordChar == Letters \cup Digits \cup {"_"}

\* str.lower() on one character.
LowerChar(c) ==
  IF c \in Range(UpperLetters)
    THEN LowerLetters[CHOOSE i \in DOMAIN UpperLetters : UpperLetters[i] = c]
    ELSE c

\* str.lower()
Lower(s) == [i \in DOMAIN s |-> LowerChar(s[i])]

\* str.strip(): drop the leading and the trailing whitespace.
Strip(s) ==
  LET keep == {i \in DOMAIN s : s[i] \notin WhiteSpace}
  IN  IF keep = {} THEN <<>>
      ELSE LET lo == CHOOSE i \in keep : \A j \in keep : i <= j
               hi == CHOOSE i \in keep : \A j \in keep : j <= i
           IN  SubSeq(s, lo, hi)

\* The literal lit occurs in s at position i.
HasPrefixAt(s, i, lit) ==
  /\ i >= 1
  /\ i + Len(lit) - 1 <= Len(s)
  /\ \A k \in 1..Len(lit) : s[i + k - 1] = lit[k]

\* str.startswith(lit)
StartsWith(s, lit) == HasPrefixAt(s, 1, lit)

\* Python's  lit in s
Contains(s, lit) == \E i \in 1..Len(s) : HasPrefixAt(s, i, lit)

\* s.split(sep)[-1] for a one-character separator: what follows the last sep.
LastSegment(s, sep) ==
  LET at == {i \in DOMAIN s : s[i] = sep}
  IN  IF at = {} THEN s
      ELSE LET final == CHOOSE i \in at : \A j \in at : j <= i
           IN  SubSeq(s, final + 1, Len(s))

\* data.split("|")[1]: the part between the first and the second "|"
\* (the callers have checked that data starts with a prefix ending in "|").
SecondField(s, sep) ==
  LET at == {i \in DOMAIN s : s[i] = sep}
      first == CHOOSE i \in at : \A j \in at : i <= j
      rest == {i \in at : i > first}
      stop == IF rest = {} THEN Len(s) + 1
              ELSE CHOOSE i \in rest : \A j \in rest : i <= j
  IN  SubSeq(s, first + 1, stop - 1)

(***************************************************************************)
(* The URL classifier.                                                     *)
(***************************************************************************)

L_http == <<"h","t","t","p">>
L_s == <<"s">>
L_css == <<":","/","/">>
L_www == <<"w","w","w",".">>
L_watch == <<"y","o","u","t","u","b","e",".","c","o","m","/",
             "w","a","t","c","h","?","v","=">>
L_youtu_be == <<"y","o","u","t","u",".","b","e","/">>
L_shorts == <<"y","o","u","t","u","b","e",".","c","o","m","/",
              "s","h","o","r","t","s","/">>
L_youtube_com == <<"y","o","u","t","u","b","e",".","c","o","m">>
L_youtu_be_host == <<"y","o","u","t","u",".","b","e">>
L_slash == <<"/">>
L_cancel == <<"/","c","a","n","c","e","l">>

\* [^\s<>"] of URL_REGEX
UrlChar(c) == c \notin WhiteSpace \cup {"<", ">", "\""}

\* [a-zA-Z0-9_-] of YOUTUBE_REGEX
IdChar(c) == c \in Letters \cup Digits \cup {"_", "-"}

\* Positions after an optional literal starting at position p.
AfterOptional(s, p, lit) ==
  {p} \cup (IF HasPrefixAt(s, p, lit) THEN {p + Len(lit)} ELSE {})

\* Positions after "https?://" starting at position p.
AfterScheme(s, p) ==
  IF HasPrefixAt(s, p, L_http)
    THEN {q + Len(L_css) : q \in {r \in AfterOptional(s, p + Len(L_http), L_s) :
                                    HasPrefixAt(s, r, L_css)}}
    ELSE {}

\* re.match(URL_REGEX, s):  https?://[^\s<>"]+ | www\.[^\s<>"]+
URL_REGEX(s) ==
  \/ \E p \in AfterScheme(s, 1) : p <= Len(s) /\ UrlChar(s[p])
  \/ /\ HasPrefixAt(s, 1, L_www)
     /\ Len(L_www) + 1 <= Len(s)
     /\ UrlChar(s[Len(L_www) + 1])

\* re.match(YOUTUBE_REGEX, s):
\* (?:https?://)?(?:www\.)?(?:youtube\.com/watch\?v=|youtu\.be/|youtube\.com/shorts/)([a-zA-Z0-9_-]+)
YOUTUBE_REGEX(s) ==
  \E p1 \in {1} \cup AfterScheme(s, 1) :
    \E p2 \in AfterOptional(s, p1, L_www) :
      \E lit \in {L_watch, L_youtu_be, L_shorts} :
        /\ HasPrefixAt(s, p2, lit)
        /\ p2 + Len(lit) <= Len(s)
        /\ IdChar(s[p2 + Len(lit)])

(***************************************************************************)
(* Texts, chats, request identifiers, sizes.                               *)
(***************************************************************************)

\* "https://youtu.be/a": matches YOUTUBE_REGEX and URL_REGEX.
T_yt_full == <<"h","t","t","p","s",":","/","/","y","o","u","t","u",".","b","e","/","a">>
\* "youtu.be/a": matches YOUTUBE_REGEX only.
T_yt_bare == <<"y","o","u","t","u",".","b","e","/","a">>
\* "http://h/f.zip": a direct URL.
T_zip == <<"h","t","t","p",":","/","/","h","/","f",".","z","i","p">>
\* " www.h\n": a direct URL by the www alternative, with surrounding whitespace.
T_www == <<" ","w","w","w",".","h","\n">>
\* "http://": a scheme with nothing after it.
T_scheme == <<"h","t","t","p",":","/","/">>
\* "/cancel"
T_cancel == <<"/","c","a","n","c","e","l">>
\* " /Cancel": the cancel command in another case, with leading whitespace.
T_Cancel == <<" ","/","C","a","n","c","e","l">>
\* "/start", "/x": a menu command and another text starting with "/".
T_start == <<"/","s","t","a","r","t">>
T_x == <<"/","x">>

\* message.text of the private text messages the model delivers; T_www is
\* the direct URL among them.
MsgTexts ==
  {T_yt_full, T_yt_bare, T_www, T_scheme, T_cancel, T_Cancel, T_start, T_x}

Chats == {"c1", "c2"}

MaxIds == 2

DigitSeq == <<"1","2","3","4","5","6","7","8","9">>

\* The values str(uuid.uuid4()) can take.
Ids == {<<"u", DigitSeq[i]>> : i \in 1..MaxIds}

\* A byte count hi * 2^30 + lo with 0 <= lo < 2^30.
Size(hi, lo) == [hi |-> hi, lo |-> lo]

SizeGreater(a, b) == a.hi > b.hi \/ (a.hi = b.hi /\ a.lo > b.lo)

SizeIsZero(a) == a.hi = 0 /\ a.lo = 0

\* 2 * 1024 * 1024 * 1024
TwoGiB == Size(2, 0)

\* What get_file_size can return: 0 (unknown or failed), 1 KiB, 2 GiB, 2 GiB + 1.
FileSizes == {Size(0, 0), Size(0, 1024), Size(2, 0), Size(2, 1)}

\* callback_query.data values.
L_default == <<"d","e","f","a","u","l","t","|">>
L_rename == <<"r","e","n","a","m","e","|">>
L_cancel_cb == <<"c","a","n","c","e","l","|">>
D_start == <<"s","t","a","r","t">>
D_help == <<"h","e","l","p">>
D_about == <<"a","b","o","u","t">>
D_settings == <<"s","e","t","t","i","n","g","s">>
D_close == <<"c","l","o","s","e">>
D_bogus == <<"z">>

MenuData == {D_start, D_help, D_about, D_settings}

CallbackData ==
  MenuData \cup {D_close, D_bogus, <<>>}
    \cup {L_default \o id : id \in Ids}
    \cup {L_rename \o id : id \in Ids}
    \cup {L_cancel_cb \o id : id \in Ids}

\* The callback queries the model delivers: data and whether the query
\* carries its message.
CallbackQueries ==
  (CallbackData \X {TRUE}) \cup ({<<>>, D_help} \X {FALSE})

(***************************************************************************)
(* File names and the result of download_youtube.                          *)
(***************************************************************************)

L_bin == <<".","b","i","n">>
L_mp4 == <<".","m","p","4">>
L_downloads == <<"d","o","w","n","l","o","a","d","s","/">>
\* A value of str(uuid.uuid4()) used as a file name (it contains no dot).
L_uuid_name == <<"u","0">>

\* re.sub(r'[^\w\-_\. ]', '_', filename)
Sanitize(s) ==
  [i \in DOMAIN s |->
     IF s[i] \in WordChar \cup {"-", "_", ".", " "} THEN s[i] ELSE "_"]

\* os.path.join('downloads', filename)
JoinDownloads(filename) == L_downloads \o filename

\* The file path download_youtube returns, <<>> for None.  info is what
\* extract_info gives ("raise", "none", "ok"), files what get_download_path
\* gives ("raise", "empty", "one"), edit_ok whether the final
\* message.edit_text("Download Complete") succeeds.  The path is the output
\* template downloads/<filename>.
download_youtube(filename, info, files, edit_ok) ==
  LET given == IF filename = <<>> THEN L_uuid_name ELSE filename
      clean == Sanitize(given)
      named == IF "." \in Range(clean) THEN clean ELSE clean \o L_mp4
  IN  IF info = "ok" /\ files = "one" /\ edit_ok
        THEN JoinDownloads(named)
        ELSE <<>>

YtInfo == {"raise", "none", "ok"}
YtFiles == {"raise", "empty", "one"}

\* Every result download_youtube can have for a file name.
YoutubeResults(filename) ==
  {download_youtube(filename, info, files, ok) :
     info \in YtInfo, files \in YtFiles, ok \in BOOLEAN}

(***************************************************************************)
(* The bot: router, handle_message, callback_handler.                      *)
(***************************************************************************)

VARIABLES
  pending_downloads,   \* request id -> URL text
  pending_renames,     \* chat id -> [url, type]
  issued,              \* the ids uuid4 has produced so far
  transfer,            \* the handle_download_or_upload calls in flight
  renameTask,          \* a rename callback suspended in message.edit_text
  cancelTask,          \* a "/cancel" message suspended in send_tracked_message
  last,                \* the handler step that led to this state
  acceptedMsgs,        \* message texts accepted as a direct URL so far
  cancelled            \* ids removed by a cancel callback so far

botVars == <<pending_downloads, pending_renames, issued, transfer,
             renameTask, cancelTask, last, acceptedMsgs, cancelled>>

\* workers=2 of the bot client: at most two handlers run at a time.
NumWorkers == 2

EmptyMap == <<>>

\* d[k] = v added to (or replaced in) the dict d
Put(d, k, v) == [x \in DOMAIN d \cup {k} |-> IF x = k THEN v ELSE d[x]]

\* d.get(k) in place of d.pop(k): the key stays.
Pop_keepsKey(d, k) == d

\* d.pop(k, None): the dict without the key k
Pop(d, k) == [x \in DOMAIN d \ {k} |-> d[x]]

\* No rename callback suspended in message.edit_text.
NoTask == [active |-> FALSE, chat |-> "-", url |-> <<>>, id |-> <<>>]

\* No "/cancel" message suspended in send_tracked_message.
NoCancel == [active |-> FALSE, chat |-> "-", text |-> <<>>]

\* The handlers that have started and not returned: each holds a worker.
InFlight ==
  transfer + (IF renameTask.active THEN 1 ELSE 0)
           + (IF cancelTask.active THEN 1 ELSE 0)

\* A handler step: which handler ran (op), in which chat, on which message
\* text or callback data, which branch it took (kind), the text it sent or
\* answered (reply), the request id it used, the callback data of the
\* keyboard it offered, the calls it made after classification, the result
\* of download_youtube, whether a stored rename URL was then a value of
\* pending_downloads, and the url and custom_filename arguments of the
\* handle_download_or_upload call it started.
Ev(op, chat, text, kind, reply) ==
  [op |-> op, chat |-> chat, text |-> text, kind |-> kind, reply |-> reply,
   id |-> <<>>, keyboard |-> {}, calls |-> <<>>, yt |-> <<>>, live |-> FALSE,
   url |-> <<>>, custom |-> <<>>, size |-> Size(0, 0)]

\* filters.command([cmd]): the text starts with "/" and the command, in any
\* case, followed by whitespace or the end of the text.
CommandFilter(raw, cmd) ==
  LET t == Lower(raw)
      lit == L_slash \o cmd
  IN  /\ HasPrefixAt(t, 1, lit)
      /\ IF Len(t) = Len(lit) THEN TRUE ELSE t[Len(lit) + 1] \in WhiteSpace

\* The handlers registered before handle_message: start, help, about.
MenuCommands == {D_start, D_help, D_about}

IsMenuCommand(raw) == \E cmd \in MenuCommands : CommandFilter(raw, cmd)

\* An identifier source that can repeat itself.
FreshIds_repeating(used) == Ids

\* uuid.uuid4(): an identifier that was never produced before.
FreshIds(used) == Ids \ used

\* The keyboard handle_message builds for a request id.
Keyboard(id) == {L_default \o id, L_rename \o id, L_cancel_cb \o id}

\* The branches without the check for a leading "/".
Classify_noSlashCheck(text) ==
  IF YOUTUBE_REGEX(text) THEN "youtube"
  ELSE IF URL_REGEX(text) THEN "direct"
  ELSE "invalid"

\* The branches with the URL pattern tried before the YouTube pattern.
Classify_urlFirst(text) ==
  IF StartsWith(text, L_slash) THEN "ignored"
  ELSE IF URL_REGEX(text) THEN "direct"
  ELSE IF YOUTUBE_REGEX(text) THEN "youtube"
  ELSE "invalid"

\* The branch handle_message takes for the stripped text when the chat has
\* no pending rename.
Classify(text) ==
  IF StartsWith(text, L_slash) THEN "ignored"
  ELSE IF YOUTUBE_REGEX(text) THEN "youtube"
  ELSE IF URL_REGEX(text) THEN "direct"
  ELSE "invalid"

\* A comparison with "/cancel" that tells upper from lower case.
IsCancel_caseSensitive(text) == text = L_cancel

\* text.lower() == "/cancel"
IsCancel(text) == Lower(text) = L_cancel

\* What handle_message and the router compute from message.text, tabulated
\* for the texts of the model: the stripped text, whether a menu command
\* handler takes the message, the branch without a pending rename, and
\* whether text.lower() == "/cancel".
MsgTable ==
  [raw \in MsgTexts |->
     [text |-> Strip(raw),
      menu |-> IsMenuCommand(raw),
      kind |-> Classify(Strip(raw)),
      cancel |-> IsCancel(Strip(raw))]]

\* The branch of callback_handler for non-empty data, in the order of its
\* if/elif chain.
CallbackBranch(data) ==
  IF data \in MenuData THEN "menu"
  ELSE IF data = D_close THEN "close"
  ELSE IF StartsWith(data, L_default) THEN "default"
  ELSE IF StartsWith(data, L_rename) THEN "rename"
  ELSE IF StartsWith(data, L_cancel_cb) THEN "cancel"
  ELSE "unknown"

\* The branch and the request id of each callback data of the model.
CallbackTable ==
  [data \in CallbackData \ {<<>>} |->
     [branch |-> CallbackBranch(data),
      file_id |-> IF "|" \in Range(data) THEN SecondField(data, "|") ELSE <<>>]]

BotInit ==
  /\ pending_downloads = EmptyMap
  /\ pending_renames = EmptyMap
  /\ issued = {}
  /\ transfer = 0
  /\ renameTask = NoTask
  /\ cancelTask = NoCancel
  /\ last = Ev("init", "-", <<>>, "init", "")
  /\ acceptedMsgs = {}
  /\ cancelled = {}

\* start_command, help_command, about_command: a menu text is sent.
MenuCommand(chat, raw) ==
  /\ InFlight < NumWorkers
  /\ MsgTable[raw].menu
  /\ last' = Ev("command", chat, raw, "menu", "Menu")
  /\ UNCHANGED <<pending_downloads, pending_renames, issued, transfer,
                 renameTask, cancelTask, acceptedMsgs, cancelled>>

\* A rename that leaves the pending rename of the chat in place.
MessageRename_keepsRename(chat, raw) ==
  LET text == MsgTable[raw].text
      rename_info == pending_renames[chat]
  IN  /\ chat \in DOMAIN pending_renames
      /\ IF MsgTable[raw].cancel
           THEN /\ ~cancelTask.active
                /\ cancelTask' = [active |-> TRUE, chat |-> chat, text |-> raw]
                /\ last' = Ev("message", chat, raw, "rename_cancel_reply",
                              "Rename Process Cancelled")
                /\ UNCHANGED <<pending_renames, transfer>>
           ELSE IF rename_info.type = "youtube"
           THEN /\ pending_renames' = Pop(pending_renames, chat)
                /\ \E path \in YoutubeResults(text) :
                     last' = [Ev("message", chat, raw, "rename_youtube", "")
                                EXCEPT !.calls = <<"download_youtube">>,
                                       !.yt = path]
                /\ UNCHANGED <<transfer, cancelTask>>
           ELSE /\ pending_renames' = pending_renames
                /\ transfer' = transfer + 1
                /\ last' = [Ev("message", chat, raw, "rename", "")
                              EXCEPT !.calls = <<"handle_download_or_upload">>,
                                     !.url = rename_info.url,
                                     !.custom = text]
                /\ UNCHANGED cancelTask
      /\ UNCHANGED <<pending_downloads, issued, renameTask, acceptedMsgs,
                     cancelled>>

\* handle_message with a pending rename for the chat: "/cancel" sends its
\* reply first and drops the pending rename when the send has returned;
\* any other text takes the pending rename and starts the transfer.
MessageRename(chat, raw) ==
  LET text == MsgTable[raw].text
      rename_info == pending_renames[chat]
  IN  /\ chat \in DOMAIN pending_renames
      /\ IF MsgTable[raw].cancel
           THEN /\ ~cancelTask.active
                /\ cancelTask' = [active |-> TRUE, chat |-> chat, text |-> raw]
                /\ last' = Ev("message", chat, raw, "rename_cancel_reply",
                              "Rename Process Cancelled")
                /\ UNCHANGED <<pending_renames, transfer>>
           ELSE IF rename_info.type = "youtube"
           THEN /\ pending_renames' = Pop(pending_renames, chat)
                /\ \E path \in YoutubeResults(text) :
                     last' = [Ev("message", chat, raw, "rename_youtube", "")
                                EXCEPT !.calls = <<"download_youtube">>,
                                       !.yt = path]
                /\ UNCHANGED <<transfer, cancelTask>>
           ELSE /\ pending_renames' = Pop(pending_renames, chat)
                /\ transfer' = transfer + 1
                /\ last' = [Ev("message", chat, raw, "rename", "")
                              EXCEPT !.calls = <<"handle_download_or_upload">>,
                                     !.url = rename_info.url,
                                     !.custom = text]
                /\ UNCHANGED cancelTask
      /\ UNCHANGED <<pending_downloads, issued, renameTask, acceptedMsgs,
                     cancelled>>

\* handle_message, "/cancel" with a pending rename, after
\* send_tracked_message has returned: pending_renames.pop(chat_id, None).
RenameCancelled ==
  /\ cancelTask.active
  /\ cancelTask' = NoCancel
  /\ pending_renames' = Pop(pending_renames, cancelTask.chat)
  /\ last' = Ev("message", cancelTask.chat, cancelTask.text, "rename_cancel", "")
  /\ UNCHANGED <<pending_downloads, issued, transfer, renameTask,
                 acceptedMsgs, cancelled>>

\* A size check that refuses 2 GiB itself too.
DirectOutcome_atLeast(file_size, name_ok) ==
  IF ~name_ok THEN "url_error"
  ELSE IF ~SizeIsZero(file_size) /\ ~SizeGreater(TwoGiB, file_size)
    THEN "too_large"
  ELSE "direct"

\* The try block of handle_message for a direct URL: get_filename raising
\* gives the error reply, a size above 2 GiB the refusal, anything else a
\* new request.
DirectOutcome(file_size, name_ok) ==
  IF ~name_ok THEN "url_error"
  ELSE IF ~SizeIsZero(file_size) /\ SizeGreater(file_size, TwoGiB)
    THEN "too_large"
  ELSE "direct"

\* handle_message for a direct URL: the size check and the new request.
\* file_size is what get_file_size returns, name_ok whether get_filename
\* returns rather than raises.
MessageDirect(chat, raw) ==
  LET text == MsgTable[raw].text
  IN  \E file_size \in FileSizes, name_ok \in BOOLEAN :
        LET kind == DirectOutcome(file_size, name_ok)
        IN  IF kind = "url_error"
              THEN /\ last' = [Ev("message", chat, raw, "url_error",
                                  "Error processing URL")
                                 EXCEPT !.calls = <<"get_file_size",
                                                    "get_filename:raised">>,
                                        !.size = file_size]
                   /\ UNCHANGED <<pending_downloads, issued, acceptedMsgs>>
            ELSE IF kind = "too_large"
              THEN /\ last' = [Ev("message", chat, raw, "too_large",
                                  "File size is too large")
                                 EXCEPT !.calls = <<"get_file_size", "get_filename">>,
                                        !.size = file_size]
                   /\ UNCHANGED <<pending_downloads, issued, acceptedMsgs>>
            ELSE \E file_id \in FreshIds(issued) :
                   /\ issued' = issued \cup {file_id}
                   /\ pending_downloads' = Put(pending_downloads, file_id, text)
                   /\ acceptedMsgs' = acceptedMsgs \cup {raw}
                   /\ last' = [Ev("message", chat, raw, "direct", "URL Detected")
                                 EXCEPT !.id = file_id,
                                        !.keyboard = Keyboard(file_id),
                                        !.calls = <<"get_file_size", "get_filename">>,
                                        !.size = file_size]

\* handle_message without a pending rename for the chat.
MessagePlain(chat, raw) ==
  LET text == MsgTable[raw].text
      kind == MsgTable[raw].kind
  IN  /\ chat \notin DOMAIN pending_renames
      /\ CASE kind = "ignored" ->
                /\ last' = Ev("message", chat, raw, "ignored", "")
                /\ UNCHANGED <<pending_downloads, issued, acceptedMsgs>>
           [] kind = "youtube" ->
                /\ \E path \in YoutubeResults(text) :
                     last' = [Ev("message", chat, raw, "youtube", "")
                                EXCEPT !.calls = <<"download_youtube">>,
                                       !.yt = path]
                /\ UNCHANGED <<pending_downloads, issued, acceptedMsgs>>
           [] kind = "direct" -> MessageDirect(chat, raw)
           [] OTHER ->
                /\ last' = Ev("message", chat, raw, "invalid",
                              "Please send me a valid direct download link or YouTube URL")
                /\ UNCHANGED <<pending_downloads, issued, acceptedMsgs>>
      /\ UNCHANGED <<pending_renames, transfer, renameTask, cancelTask,
                     cancelled>>

\* handle_message: every private text message that is not a menu command.
HandleMessage(chat, raw) ==
  /\ InFlight < NumWorkers
  /\ ~MsgTable[raw].menu
  /\ \/ MessageRename(chat, raw)
     \/ MessagePlain(chat, raw)

\* The first call of callback_handler for a query with data and message:
\* callback_query.answer("Processing your request..."), which may raise.
AnswerCalls == {"callback_query.answer", "callback_query.answer:raised"}

\* A handler step of callback_handler with the answer call in front of the
\* calls of its branch.
Answered(ev, answer_ok) ==
  [ev EXCEPT !.calls = <<IF answer_ok THEN "callback_query.answer"
                         ELSE "callback_query.answer:raised">> \o @]

\* An answer call whose exception leaves the try block of the branches too.
AfterAnswer_propagates(answer_ok, branch) ==
  IF answer_ok THEN branch ELSE "answer_failed"

\* try: await callback_query.answer(...) except Exception: the branch runs
\* whether the answer succeeded or not.
AfterAnswer(answer_ok, branch) == branch

\* The calls of a "Link expired" answer: when it raises, the except clause
\* of the branches edits its error text into the selection message.
ExpiredCalls(expired_ok) ==
  IF expired_ok THEN <<"callback_query.answer:Link expired">>
  ELSE <<"callback_query.answer:Link expired:raised",
         "message.edit_text:An unexpected error occurred">>

\* A quick download that takes its entry out of pending_downloads.
CallbackDefault_takesEntry(chat, data, answer_ok) ==
  LET file_id == CallbackTable[data].file_id
  IN  IF file_id \notin DOMAIN pending_downloads
        THEN /\ \E expired_ok \in BOOLEAN :
                  last' = Answered([Ev("callback", chat, data, "default_expired",
                                       "Link expired")
                                      EXCEPT !.id = file_id,
                                             !.calls = ExpiredCalls(expired_ok)],
                                   answer_ok)
             /\ UNCHANGED <<pending_downloads, transfer, renameTask, cancelled>>
        ELSE /\ transfer' = transfer + 1
             /\ pending_downloads' = Pop(pending_downloads, file_id)
             /\ last' = Answered([Ev("callback", chat, data, "default", "")
                                    EXCEPT !.id = file_id,
                                           !.calls = <<"message.delete",
                                                       "handle_download_or_upload">>,
                                           !.url = pending_downloads[file_id]],
                                 answer_ok)
             /\ UNCHANGED <<renameTask, cancelled>>

\* callback_handler, "default|<id>": quick download of the stored URL.
CallbackDefault(chat, data, answer_ok) ==
  LET file_id == CallbackTable[data].file_id
  IN  IF file_id \notin DOMAIN pending_downloads
        THEN /\ \E expired_ok \in BOOLEAN :
                  last' = Answered([Ev("callback", chat, data, "default_expired",
                                       "Link expired")
                                      EXCEPT !.id = file_id,
                                             !.calls = ExpiredCalls(expired_ok)],
                                   answer_ok)
             /\ UNCHANGED <<pending_downloads, transfer, renameTask, cancelled>>
        ELSE /\ transfer' = transfer + 1
             /\ last' = Answered([Ev("callback", chat, data, "default", "")
                                    EXCEPT !.id = file_id,
                                           !.calls = <<"message.delete",
                                                       "handle_download_or_upload">>,
                                           !.url = pending_downloads[file_id]],
                                 answer_ok)
             /\ UNCHANGED <<pending_downloads, renameTask, cancelled>>

\* A rename branch without the check of the URL it looked up.
CallbackRename_noExpiryCheck(chat, data, answer_ok) ==
  LET file_id == CallbackTable[data].file_id
  IN  /\ ~renameTask.active
      /\ renameTask' = [active |-> TRUE, chat |-> chat,
                        url |-> IF file_id \in DOMAIN pending_downloads
                                  THEN pending_downloads[file_id] ELSE <<>>,
                        id |-> file_id]
      /\ last' = Answered([Ev("callback", chat, data, "rename_prompt",
                              "Send me the new file name")
                             EXCEPT !.id = file_id,
                                    !.calls = <<"message.edit_text">>],
                          answer_ok)
      /\ UNCHANGED <<pending_downloads, transfer, cancelled>>

\* callback_handler, "rename|<id>", up to the await of message.edit_text:
\* the URL has been read from pending_downloads.
CallbackRename(chat, data, answer_ok) ==
  LET file_id == CallbackTable[data].file_id
  IN  IF file_id \notin DOMAIN pending_downloads
        THEN /\ \E expired_ok \in BOOLEAN :
                  last' = Answered([Ev("callback", chat, data, "rename_expired",
                                       "Link expired")
                                      EXCEPT !.id = file_id,
                                             !.calls = ExpiredCalls(expired_ok)],
                                   answer_ok)
             /\ UNCHANGED <<pending_downloads, transfer, renameTask, cancelled>>
        ELSE /\ ~renameTask.active
             /\ renameTask' = [active |-> TRUE, chat |-> chat,
                               url |-> pending_downloads[file_id],
                               id |-> file_id]
             /\ last' = Answered([Ev("callback", chat, data, "rename_prompt",
                                     "Send me the new file name")
                                    EXCEPT !.id = file_id,
                                           !.calls = <<"message.edit_text">>],
                                 answer_ok)
             /\ UNCHANGED <<pending_downloads, transfer, cancelled>>

\* A cancel branch that empties pending_downloads.
CallbackCancel_clearsAll(chat, data, answer_ok) ==
  LET file_id == CallbackTable[data].file_id
  IN  /\ pending_downloads' = EmptyMap
      /\ cancelled' = cancelled \cup ({file_id} \cap DOMAIN pending_downloads)
      /\ last' = Answered([Ev("callback", chat, data, "cancel", "")
                             EXCEPT !.id = file_id,
                                    !.calls = <<"message.delete">>],
                          answer_ok)
      /\ UNCHANGED <<transfer, renameTask>>

\* callback_handler, "cancel|<id>": the entry is dropped.
CallbackCancel(chat, data, answer_ok) ==
  LET file_id == CallbackTable[data].file_id
  IN  /\ pending_downloads' = Pop(pending_downloads, file_id)
      /\ cancelled' = cancelled \cup ({file_id} \cap DOMAIN pending_downloads)
      /\ last' = Answered([Ev("callback", chat, data, "cancel", "")
                             EXCEPT !.id = file_id,
                                    !.calls = <<"message.delete">>],
                          answer_ok)
      /\ UNCHANGED <<transfer, renameTask>>

\* callback_handler: one callback query; has_message tells whether
\* callback_query.message is set, answer_ok whether the first
\* callback_query.answer succeeds.
Callback(chat, data, has_message, answer_ok) ==
  /\ InFlight < NumWorkers
  /\ IF data = <<>>
       THEN /\ last' = Ev("callback", chat, data, "empty", "")
            /\ UNCHANGED <<pending_downloads, transfer, renameTask, cancelled>>
     ELSE IF ~has_message
       THEN /\ last' = Ev("callback", chat, data, "no_message", "Invalid callback")
            /\ UNCHANGED <<pending_downloads, transfer, renameTask, cancelled>>
     ELSE LET branch == AfterAnswer(answer_ok, CallbackTable[data].branch)
          IN  IF branch = "menu"
                THEN /\ last' = Answered([Ev("callback", chat, data, "menu",
                                             "Processing your request")
                                            EXCEPT !.calls = <<"message.edit_text">>],
                                         answer_ok)
                     /\ UNCHANGED <<pending_downloads, transfer, renameTask,
                                    cancelled>>
              ELSE IF branch = "close"
                THEN /\ last' = Answered([Ev("callback", chat, data, "close",
                                             "Processing your request")
                                            EXCEPT !.calls = <<"message.delete">>],
                                         answer_ok)
                     /\ UNCHANGED <<pending_downloads, transfer, renameTask,
                                    cancelled>>
              ELSE IF branch = "default" THEN CallbackDefault(chat, data, answer_ok)
              ELSE IF branch = "rename" THEN CallbackRename(chat, data, answer_ok)
              ELSE IF branch = "cancel" THEN CallbackCancel(chat, data, answer_ok)
              ELSE /\ last' = Answered(Ev("callback", chat, data, "unknown",
                                          "Invalid button"), answer_ok)
                   /\ UNCHANGED <<pending_downloads, transfer, renameTask,
                                  cancelled>>
  /\ UNCHANGED <<pending_renames, issued, cancelTask, acceptedMsgs>>

\* pending_renames[chat_id] = {"url": url, "type": "direct"}
RenameInfo(url, file_id) == [url |-> url, type |-> "direct"]

\* callback_handler, "rename|<id>", after message.edit_text: when the edit
\* succeeded the pending rename of the chat is stored, when it raised the
\* handler reports the error and stores nothing.
RenameStore(edit_ok) ==
  /\ renameTask.active
  /\ renameTask' = NoTask
  /\ IF edit_ok
       THEN /\ pending_renames' =
                 Put(pending_renames, renameTask.chat,
                     RenameInfo(renameTask.url, renameTask.id))
            /\ last' = [Ev("callback", renameTask.chat,
                           L_rename \o renameTask.id, "rename_stored", "")
                          EXCEPT !.id = renameTask.id,
                                 !.url = renameTask.url,
                                 !.live = (renameTask.url \in Range(pending_downloads))]
       ELSE /\ UNCHANGED pending_renames
            /\ last' = [Ev("callback", renameTask.chat,
                           L_rename \o renameTask.id, "rename_failed",
                           "An unexpected error occurred")
                          EXCEPT !.id = renameTask.id]
  /\ UNCHANGED <<pending_downloads, issued, transfer, cancelTask,
                 acceptedMsgs, cancelled>>

\* handle_download_or_upload returns to the handler that awaited it; the
\* transfer itself touches neither map.
TransferReturn ==
  /\ transfer > 0
  /\ transfer' = transfer - 1
  /\ last' = Ev("transfer", "-", <<>>, "transfer_return", "")
  /\ UNCHANGED <<pending_downloads, pending_renames, issued, renameTask,
                 cancelTask, acceptedMsgs, cancelled>>

(***************************************************************************)
(* The transfer pipeline: one call of handle_download_or_upload.           *)
(***************************************************************************)

\* The locals of the call, its position (pc), its calls so far, how its
\* download ("ok", "none", "missing", "raise") and its upload call ("ok",
\* "raise", "undefined") ended, and whether a call to Telegram or to the
\* network failed (fault).
VARIABLE tr

L_dot == "."

\* "http://h/v.MP4", "http://youtube.com/c", "http://h/": direct URLs with a
\* video extension in upper case, with a YouTube host, with no file name.
U_video == <<"h","t","t","p",":","/","/","h","/","v",".","M","P","4">>
U_yt_host == <<"h","t","t","p",":","/","/","y","o","u","t","u","b","e",".","c","o","m","/","c">>
U_dir == <<"h","t","t","p",":","/","/","h","/">>
\* "a.mp3", "n", ".mp4": file names with an audio extension, without an
\* extension, and with only a leading dot.
N_audio == <<"a",".","m","p","3">>
N_plain == <<"n">>
N_dotfile == <<".","m","p","4">>

\* The url arguments: stripped texts that handle_message accepts as direct.
TransferUrls == {Strip(T_zip), Strip(T_www), U_video, U_yt_host, U_dir}

\* The custom_filename arguments: <<>> for None, or a stripped message text.
TransferNames == {<<>>, N_audio, N_plain, N_dotfile, T_x}

\* The file name handle_download_or_upload derives from its arguments.
FileName(url, custom_filename) ==
  LET segment == LastSegment(url, "/")
      given == IF custom_filename # <<>> THEN custom_filename
               ELSE IF segment # <<>> THEN segment
               ELSE L_uuid_name
      clean == Sanitize(given)
  IN  IF L_dot \in Range(clean) THEN clean ELSE clean \o L_bin

\* "youtube.com" in url or "youtu.be" in url
IsYoutubeUrl(url) ==
  Contains(url, L_youtube_com) \/ Contains(url, L_youtu_be_host)

\* os.path.splitext(path)[1].lower(): from the last dot of the last path
\* component, unless only dots precede it there.
FileExtension(path) ==
  LET base == LastSegment(path, "/")
      dots == {i \in DOMAIN base : base[i] = L_dot}
  IN  IF dots = {} THEN <<>>
      ELSE LET d == CHOOSE i \in dots : \A j \in dots : j <= i
           IN  IF \E k \in 1..(d - 1) : base[k] # L_dot
                 THEN Lower(SubSeq(base, d, Len(base)))
                 ELSE <<>>

VideoExtensions ==
  {<<".","m","p","4">>, <<".","a","v","i">>, <<".","m","k","v">>,
   <<".","m","o","v">>, <<".","w","e","b","m">>}

AudioExtensions ==
  {<<".","m","p","3">>, <<".","w","a","v">>, <<".","f","l","a","c">>,
   <<".","o","g","g">>}

\* The call the upload step makes for a downloaded file.
UploadCall(downloaded_file) ==
  LET file_extension == FileExtension(downloaded_file)
  IN  IF file_extension \in VideoExtensions THEN "send_video"
      ELSE IF file_extension \in AudioExtensions THEN "send_audio"
      ELSE "send_file_with_thumbnail"

UploadCalls == {"send_video", "send_audio", "send_file_with_thumbnail"}

\* The names the module defines or imports: send_file_with_thumbnail is
\* neither defined in nor imported into uploder.py, so calling it raises
\* NameError.
IsDefined(call) == call \in {"send_video", "send_audio"}

\* Stands for an exception leaving the called function.
Raised == <<"r","a","i","s","e">>

\* What download_file returns: the path, <<>> for None, or "raise" when the
\* edit_text of its last except clause raises (Raised).  http is the outcome of the
\* GET ("ok", "status", "network", "error"), complete whether the file has
\* the announced size, edit_failures how many of its successive edit_text
\* calls raise.
download_file(filename, http, complete, edit_failures) ==
  LET edits == IF http = "error" THEN 1
               ELSE IF http = "ok" /\ complete THEN 0
               ELSE 2
  IN  IF http = "ok" /\ complete THEN JoinDownloads(filename)
      ELSE IF edit_failures >= edits THEN Raised
      ELSE <<>>

HttpOutcomes == {"ok", "status", "network", "error"}

\* Every outcome download_file can have for a file name.
DownloadFileResults(filename) ==
  {download_file(filename, http, complete, edit_failures) :
     http \in HttpOutcomes, complete \in BOOLEAN, edit_failures \in 0..2}

\* The check of the download result without os.path.exists.
DownloadFailed_noExistsCheck(downloaded_file, exists) ==
  downloaded_file = <<>>

\* if not downloaded_file or not os.path.exists(downloaded_file)
DownloadFailed(downloaded_file, exists) ==
  downloaded_file = <<>> \/ ~exists

\* The except clauses without the outermost try: an error raised in the
\* download_error clause leaves the function.
EnclosingHandler_noOuterTry(pc) ==
  CASE pc = "h_send" -> "h_upload"
    [] pc = "h_upload" -> "h_download"
    [] pc = "h_download" -> "raised"

\* The except clause that takes over when a statement of an except clause
\* raises: send_error, upload_error, download_error, the outermost one.
EnclosingHandler(pc) ==
  CASE pc = "h_send" -> "h_upload"
    [] pc = "h_upload" -> "h_download"
    [] pc = "h_download" -> "h_outer"

TrStart(url, custom_filename) ==
  [pc |-> "reply", url |-> url, custom |-> custom_filename,
   filename |-> <<>>, reply_failed |-> FALSE, probe_failed |-> FALSE,
   downloaded_file |-> <<>>, exists |-> FALSE, download |-> "-",
   upload |-> "-", fault |-> FALSE, ret |-> <<>>, calls |-> <<>>]

TrIdle == [TrStart(<<>>, <<>>) EXCEPT !.pc = "idle"]

\* message.reply_text("Preparing Download"); on failure progress_msg is
\* the message itself.  Then the file name is determined.
TrReply(ok) ==
  /\ tr.pc = "reply"
  /\ tr' = [tr EXCEPT !.calls = Append(@, "reply_text:Preparing Download"),
                      !.reply_failed = ~ok,
                      !.fault = ~ok,
                      !.filename = FileName(tr.url, tr.custom),
                      !.pc = "probe"]

\* The HEAD request for the size; on failure file_size is 0.
TrProbe(ok) ==
  /\ tr.pc = "probe"
  /\ tr' = [tr EXCEPT !.calls = Append(@, "session.head"),
                      !.probe_failed = ~ok,
                      !.fault = @ \/ ~ok,
                      !.pc = "download"]

\* The download step and the check of its result.
TrDownload ==
  /\ tr.pc = "download"
  /\ \E result \in (IF IsYoutubeUrl(tr.url)
                      THEN YoutubeResults(tr.filename)
                      ELSE DownloadFileResults(tr.filename)),
        exists \in BOOLEAN :
       /\ exists => result \notin {<<>>, Raised}
       /\ tr' = [tr EXCEPT
            !.calls = Append(@, IF IsYoutubeUrl(tr.url) THEN "download_youtube"
                                ELSE "download_file"),
            !.downloaded_file = IF result = Raised THEN <<>> ELSE result,
            !.exists = exists,
            !.download = IF result = Raised THEN "raise"
                         ELSE IF result = <<>> THEN "none"
                         ELSE IF ~exists THEN "missing"
                         ELSE "ok",
            !.fault = @ \/ result \in {<<>>, Raised} \/ ~exists,
            !.pc = IF result = Raised THEN "h_download"
                   ELSE IF DownloadFailed(result, exists) THEN "download_failed"
                   ELSE "upload_prepare"]

\* progress_msg.edit_text("Download Failed: Unable to download file"); return None
TrDownloadFailed(ok) ==
  /\ tr.pc = "download_failed"
  /\ tr' = [tr EXCEPT !.calls = Append(@, "edit_text:Download Failed"),
                      !.fault = @ \/ ~ok,
                      !.pc = IF ok THEN "done" ELSE "h_download"]

\* progress_msg.edit_text("Uploading File") and os.path.getsize
TrUploadPrepare(ok) ==
  /\ tr.pc = "upload_prepare"
  /\ tr' = [tr EXCEPT !.calls = Append(@, "edit_text:Uploading File"),
                      !.fault = @ \/ ~ok,
                      !.pc = IF ok THEN "send" ELSE "h_upload"]

\* The upload call chosen by the file extension: a call of an undefined
\* name raises NameError, a defined one succeeds or raises.
TrSend(ok) ==
  /\ tr.pc = "send"
  /\ LET call == UploadCall(tr.downloaded_file)
     IN  IF IsDefined(call)
           THEN tr' = [tr EXCEPT !.calls = Append(@, call),
                                 !.upload = IF ok THEN "ok" ELSE "raise",
                                 !.fault = @ \/ ~ok,
                                 !.pc = IF ok THEN "delete" ELSE "h_send"]
           ELSE /\ ok
                /\ tr' = [tr EXCEPT !.calls = Append(@, call),
                                    !.upload = "undefined",
                                    !.pc = "h_send"]

\* progress_msg.delete(), os.remove(downloaded_file), return downloaded_file
TrDelete(ok) ==
  /\ tr.pc = "delete"
  /\ tr' = IF ok
             THEN [tr EXCEPT !.calls = @ \o <<"progress_msg.delete", "os.remove">>,
                             !.ret = tr.downloaded_file,
                             !.pc = "done"]
             ELSE [tr EXCEPT !.calls = Append(@, "progress_msg.delete"),
                             !.fault = TRUE,
                             !.pc = "h_send"]

\* An except clause: it tries to show its error text and returns None; when
\* that edit raises, the enclosing except clause takes over.
TrHandler(ok) ==
  /\ tr.pc \in {"h_send", "h_upload", "h_download"}
  /\ tr' = [tr EXCEPT
       !.calls = Append(@, CASE tr.pc = "h_send" -> "edit_text:Upload Failed"
                             [] tr.pc = "h_upload" -> "edit_text:Upload Preparation Failed"
                             [] tr.pc = "h_download" -> "edit_text:Download Failed"),
       !.fault = @ \/ ~ok,
       !.pc = IF ok THEN "done" ELSE EnclosingHandler(tr.pc)]

\* The outermost except clause: message.reply_text in a try block that
\* ignores every error; return None.
TrOuter ==
  /\ tr.pc = "h_outer"
  /\ tr' = [tr EXCEPT !.calls = Append(@, "reply_text:Process Failed"),
                      !.pc = "done"]

TransferInit == \E url \in TransferUrls, name \in TransferNames :
                  tr = TrStart(url, name)

(***************************************************************************)
(* The progress throttle: progress_for_pyrogram called by the transfers    *)
(* in flight, and its attribute last_update that all calls share.          *)
(***************************************************************************)

VARIABLES
  clock,        \* time.time(), in whole seconds
  last_update,  \* progress_for_pyrogram.last_update, 0 while it is not set
  pg,           \* per transfer: the progress call suspended in edit_text
  edited        \* per transfer: its last successful edit, and the seconds
                \* between its last two successful edits with current < total

progressVars == <<clock, last_update, pg, edited>>

\* The transfers that report progress: one per worker of the bot client.
Reporters == 1..NumWorkers

StartTime == 10

MaxTicks == 7

\* The byte counts of the calls: nothing yet, a part, the whole file.
TotalBytes == 2

\* Stands for "no two edits with current < total yet": more than any gap.
NoGap == StartTime + MaxTicks + 1

\* if (now - last_update > 5) or (current == total)
ShouldEdit(now, updated, current, total) ==
  (now - updated > 5) \/ (current = total)

PgIdle == [pc |-> "idle", now |-> 0, current |-> 0, partial |-> FALSE]

ProgressInit ==
  /\ clock = StartTime
  /\ last_update = 0
  /\ pg = [r \in Reporters |-> PgIdle]
  /\ edited = [r \in Reporters |-> [time |-> 0, partial |-> FALSE, gap |-> NoGap]]

\* A second passes.
Tick ==
  /\ clock < StartTime + MaxTicks
  /\ clock' = clock + 1
  /\ UNCHANGED <<last_update, pg, edited>>

\* progress_for_pyrogram(current, total, ...) up to the await of
\* message.edit_text: it returns at once when current is 0, when total is 0
\* (the bar length divides by total) or when the throttle says so.
ProgressCall(r, current, total) ==
  /\ pg[r].pc = "idle"
  /\ IF current # 0 /\ total # 0 /\ ShouldEdit(clock, last_update, current, total)
       THEN pg' = [pg EXCEPT ![r] = [pc |-> "editing", now |-> clock,
                                     current |-> current,
                                     partial |-> current < total]]
       ELSE UNCHANGED pg
  /\ UNCHANGED <<clock, last_update, edited>>

\* message.edit_text returns: on success last_update = now, on FloodWait or
\* any other error it stays as it is.
ProgressEdited(r, ok) ==
  /\ pg[r].pc = "editing"
  /\ pg' = [pg EXCEPT ![r] = PgIdle]
  /\ IF ok
       THEN /\ last_update' = pg[r].now
            /\ edited' = [edited EXCEPT ![r] =
                 [time |-> pg[r].now, partial |-> pg[r].partial,
                  gap |-> IF pg[r].partial /\ edited[r].partial
                            THEN pg[r].now - edited[r].time
                            ELSE NoGap]]
       ELSE UNCHANGED <<last_update, edited>>
  /\ UNCHANGED clock

(***************************************************************************)
(* The dispatcher and the /broadcast command.                              *)
(***************************************************************************)

\* One incoming text message, from its dispatch to the return of the
\* handler that took it: whether its chat is private, whether its sender
\* is OWNER_ID, whether it replies to another message, what that message
\* holds ("text", "caption", "none"), the handler that took it, the reply
\* texts sent on it, the send_message and copy_message calls to users, the
\* edits of the status message, and whether an exception left the handler.
VARIABLE bc

L_broadcast == <<"b","r","o","a","d","c","a","s","t">>

\* "/broadcast", "/Broadcast now": the command, bare and with an argument.
T_broadcast == <<"/","b","r","o","a","d","c","a","s","t">>
T_Broadcast_arg == <<"/","B","r","o","a","d","c","a","s","t"," ","n","o","w">>

BcTexts == {T_broadcast, T_Broadcast_arg, T_start, T_zip}

BcContents == {"text", "caption", "none"}

\* The handler the dispatcher calls for a text message: the first one, in
\* the order of registration, whose filter accepts the message.
Dispatch(private, raw, from_owner) ==
  IF private /\ CommandFilter(raw, D_start) THEN "start_command"
  ELSE IF private /\ CommandFilter(raw, D_help) THEN "help_command"
  ELSE IF private /\ CommandFilter(raw, D_about) THEN "about_command"
  ELSE IF private THEN "handle_message"
  ELSE IF CommandFilter(raw, L_broadcast) /\ from_owner THEN "broadcast_message"
  ELSE "none"

\* get_all_users(): the placeholder returns the empty list.
get_all_users == <<>>

\* The send_message and copy_message calls of the loop over the users: one
\* per user when the message has a text or a caption, and one more for a
\* user whose first call met FloodWait.
BroadcastSends(users, content, flood) ==
  IF content = "none" THEN 0
  ELSE Len(users) + Cardinality({i \in DOMAIN users : flood[i]})

BcIdle ==
  [pc |-> "idle", private |-> FALSE, from_owner |-> FALSE, is_reply |-> FALSE,
   content |-> "none", raw |-> <<>>, handler |-> "none", replies |-> <<>>,
   sends |-> 0, edits |-> 0, raised |-> FALSE]

BcInit == bc = BcIdle

\* A text message arrives and the dispatcher picks its handler.
BcDispatch(private, from_owner, is_reply, content, raw) ==
  /\ bc.pc = "idle"
  /\ LET handler == Dispatch(private, raw, from_owner)
     IN  bc' = [bc EXCEPT !.private = private, !.from_owner = from_owner,
                          !.is_reply = is_reply, !.content = content,
                          !.raw = raw, !.handler = handler,
                          !.pc = IF handler = "broadcast_message"
                                   THEN "checks" ELSE "done"]

\* broadcast_handler up to the status message: the owner check, the reply
\* check, and message.reply_text("Starting broadcast"); a reply_text that
\* raises leaves the handler.
BcChecks(ok) ==
  /\ bc.pc = "checks"
  /\ bc' = IF ~bc.from_owner
             THEN [bc EXCEPT !.replies = Append(@, "You are not authorized to use this command"),
                             !.raised = ~ok, !.pc = "done"]
           ELSE IF ~bc.is_reply
             THEN [bc EXCEPT !.replies = Append(@, "Please reply to a message you want to broadcast"),
                             !.raised = ~ok, !.pc = "done"]
           ELSE [bc EXCEPT !.replies = Append(@, "Starting broadcast"),
                           !.raised = ~ok,
                           !.pc = IF ok THEN "loop" ELSE "done"]

\* The loop over get_all_users().
BcLoop ==
  /\ bc.pc = "loop"
  /\ \E flood \in [DOMAIN get_all_users -> BOOLEAN] :
       bc' = [bc EXCEPT !.sends = BroadcastSends(get_all_users, bc.content, flood),
                        !.pc = "report"]

\* status_msg.edit_text("Broadcast Complete")
BcReport(ok) ==
  /\ bc.pc = "report"
  /\ bc' = [bc EXCEPT !.edits = @ + 1, !.raised = ~ok, !.pc = "done"]

(***************************************************************************)
(* The tracked bot messages: send_tracked_message and                      *)
(* clean_previous_messages.                                                *)
(***************************************************************************)

\* recent_bot_messages and its handlers.  recent is the dict (user id to
\* list of message ids); appended and removed are, per user, the ids in the
\* order they were appended to and popped from the list; failed holds the
\* ids whose delete_messages raised; w gives each handler's position; last
\* is the step just taken.
VARIABLE tm

\* max_messages=3, the default every caller uses.
max_messages == 3

MaxSends == 5

\* The users whose messages are tracked (in a private chat the chat id).
Users == Chats

TmWorkers == 1..NumWorkers

TmIdleWorker == [pc |-> "idle", user |-> "-", oldest |-> 0]

TmInit ==
  tm = [recent |-> EmptyMap,
        appended |-> [u \in Users |-> <<>>],
        removed |-> [u \in Users |-> <<>>],
        failed |-> {},
        next_id |-> 1,
        w |-> [i \in TmWorkers |-> TmIdleWorker],
        last |-> [op |-> "init", user |-> "-"]]

\* recent_bot_messages.get(user_id, [])
UserMessages(recent, user) ==
  IF user \in DOMAIN recent THEN recent[user] ELSE <<>>

\* A loop that lets one message more stay.
NeedsClean_oneMore(user_messages) == Len(user_messages) > max_messages + 1

\* while len(user_messages) > max_messages
NeedsClean(user_messages) == Len(user_messages) > max_messages

\* clean_previous_messages from the loop test to its next await or its
\* return, on the record t: either the oldest id is popped and
\* delete_messages awaited, or the list is stored and the call returns.
\* user_messages is the list object of the dict itself whenever the key
\* exists, so a pop or an append by another handler is seen here.
CleanLoop(t, i, user) ==
  LET user_messages == UserMessages(t.recent, user)
  IN  IF NeedsClean(user_messages)
        THEN [t EXCEPT !.recent = Put(t.recent, user, Tail(user_messages)),
                       !.removed[user] = Append(@, Head(user_messages)),
                       !.w[i] = [pc |-> "deleting", user |-> user,
                                 oldest |-> Head(user_messages)],
                       !.last = [op |-> "pop", user |-> user]]
        ELSE [t EXCEPT !.recent = Put(t.recent, user, user_messages),
                       !.w[i] = TmIdleWorker,
                       !.last = [op |-> "clean_return", user |-> user]]

\* handle_message calls clean_previous_messages for the user.
TmClean(i, user) ==
  /\ tm.w[i].pc = "idle"
  /\ tm' = CleanLoop(tm, i, user)

\* send_tracked_message up to the await of client.send_message.
TmSend(i, user) ==
  /\ tm.w[i].pc = "idle"
  /\ tm.next_id <= MaxSends
  /\ tm' = [tm EXCEPT !.w[i] = [pc |-> "sending", user |-> user, oldest |-> 0],
                      !.last = [op |-> "send", user |-> user]]

\* client.send_message returns the message, whose id is appended to the
\* user's list before clean_previous_messages is called, or raises, and
\* send_tracked_message returns None.
TmSent(i, ok) ==
  /\ tm.w[i].pc = "sending"
  /\ LET user == tm.w[i].user
         id == tm.next_id
     IN  IF ok
           THEN tm' = CleanLoop(
                        [tm EXCEPT !.recent = Put(tm.recent, user,
                                                  Append(UserMessages(tm.recent, user), id)),
                                   !.appended[user] = Append(@, id),
                                   !.next_id = id + 1],
                        i, user)
           ELSE tm' = [tm EXCEPT !.w[i] = TmIdleWorker,
                                 !.next_id = id + 1,
                                 !.last = [op |-> "send_failed", user |-> user]]

\* client.delete_messages returns or raises (the error is logged), and the
\* loop goes on.
TmDeleted(i, ok) ==
  /\ tm.w[i].pc = "deleting"
  /\ tm' = CleanLoop(
             [tm EXCEPT !.failed = IF ok THEN @ ELSE @ \cup {tm.w[i].oldest}],
             i, tm.w[i].user)

(***************************************************************************)
(* The specifications.                                                     *)
(***************************************************************************)

vars == <<pending_downloads, pending_renames, issued, transfer, renameTask,
          cancelTask, last, acceptedMsgs, cancelled, tr, clock, last_update, pg,
          edited, bc, tm>>

\* The bot: messages and callbacks in any order, one transfer in flight.
Init == BotInit /\ tr = TrIdle /\ ProgressInit /\ BcInit /\ TmInit

Next ==
  \/ \E chat \in Chats, raw \in MsgTexts :
       MenuCommand(chat, raw) /\ UNCHANGED tr /\ UNCHANGED progressVars /\ UNCHANGED bc /\ UNCHANGED tm
  \/ \E chat \in Chats, raw \in MsgTexts :
       HandleMessage(chat, raw) /\ UNCHANGED tr /\ UNCHANGED progressVars /\ UNCHANGED bc /\ UNCHANGED tm
  \/ \E chat \in Chats, query \in CallbackQueries :
       (\E answer_ok \in BOOLEAN : Callback(chat, query[1], query[2], answer_ok))
         /\ UNCHANGED tr /\ UNCHANGED progressVars /\ UNCHANGED bc /\ UNCHANGED tm
  \/ \E edit_ok \in BOOLEAN :
       RenameStore(edit_ok) /\ UNCHANGED tr /\ UNCHANGED progressVars /\ UNCHANGED bc /\ UNCHANGED tm
  \/ RenameCancelled /\ UNCHANGED tr /\ UNCHANGED progressVars /\ UNCHANGED bc /\ UNCHANGED tm
  \/ TransferReturn /\ UNCHANGED tr /\ UNCHANGED progressVars /\ UNCHANGED bc /\ UNCHANGED tm

Spec == Init /\ [][Next]_vars

\* One call of handle_download_or_upload, from any arguments.
InitTransfer == BotInit /\ TransferInit /\ ProgressInit /\ BcInit /\ TmInit

NextTransfer ==
  \/ \E ok \in BOOLEAN : TrReply(ok) /\ UNCHANGED botVars /\ UNCHANGED progressVars /\ UNCHANGED bc /\ UNCHANGED tm
  \/ \E ok \in BOOLEAN : TrProbe(ok) /\ UNCHANGED botVars /\ UNCHANGED progressVars /\ UNCHANGED bc /\ UNCHANGED tm
  \/ TrDownload /\ UNCHANGED botVars /\ UNCHANGED progressVars /\ UNCHANGED bc /\ UNCHANGED tm
  \/ \E ok \in BOOLEAN :
       TrDownloadFailed(ok) /\ UNCHANGED botVars /\ UNCHANGED progressVars /\ UNCHANGED bc /\ UNCHANGED tm
  \/ \E ok \in BOOLEAN :
       TrUploadPrepare(ok) /\ UNCHANGED botVars /\ UNCHANGED progressVars /\ UNCHANGED bc /\ UNCHANGED tm
  \/ \E ok \in BOOLEAN : TrSend(ok) /\ UNCHANGED botVars /\ UNCHANGED progressVars /\ UNCHANGED bc /\ UNCHANGED tm
  \/ \E ok \in BOOLEAN : TrDelete(ok) /\ UNCHANGED botVars /\ UNCHANGED progressVars /\ UNCHANGED bc /\ UNCHANGED tm
  \/ \E ok \in BOOLEAN : TrHandler(ok) /\ UNCHANGED botVars /\ UNCHANGED progressVars /\ UNCHANGED bc /\ UNCHANGED tm
  \/ TrOuter /\ UNCHANGED botVars /\ UNCHANGED progressVars /\ UNCHANGED bc /\ UNCHANGED tm

SpecTransfer == InitTransfer /\ [][NextTransfer]_vars

\* The progress calls of the transfers in flight, as time passes.
InitProgress == BotInit /\ tr = TrIdle /\ ProgressInit /\ BcInit /\ TmInit

NextProgress ==
  \/ Tick /\ UNCHANGED botVars /\ UNCHANGED tr /\ UNCHANGED bc /\ UNCHANGED tm
  \/ \E r \in Reporters, current \in 0..TotalBytes, total \in {0, TotalBytes} :
       ProgressCall(r, current, total) /\ UNCHANGED botVars /\ UNCHANGED tr /\ UNCHANGED bc /\ UNCHANGED tm
  \/ \E r \in Reporters, ok \in BOOLEAN :
       ProgressEdited(r, ok) /\ UNCHANGED botVars /\ UNCHANGED tr /\ UNCHANGED bc /\ UNCHANGED tm

SpecProgress == InitProgress /\ [][NextProgress]_vars

\* One text message through the dispatcher, and broadcast_handler when
\* the message reaches it.
InitBroadcast == BotInit /\ tr = TrIdle /\ ProgressInit /\ BcInit /\ TmInit

NextBroadcast ==
  \/ \E private \in BOOLEAN, from_owner \in BOOLEAN, is_reply \in BOOLEAN,
        content \in BcContents, raw \in BcTexts :
       BcDispatch(private, from_owner, is_reply, content, raw)
         /\ UNCHANGED botVars /\ UNCHANGED tr /\ UNCHANGED progressVars /\ UNCHANGED tm
  \/ \E ok \in BOOLEAN :
       BcChecks(ok) /\ UNCHANGED botVars /\ UNCHANGED tr /\ UNCHANGED progressVars /\ UNCHANGED tm
  \/ BcLoop /\ UNCHANGED botVars /\ UNCHANGED tr /\ UNCHANGED progressVars /\ UNCHANGED tm
  \/ \E ok \in BOOLEAN :
       BcReport(ok) /\ UNCHANGED botVars /\ UNCHANGED tr /\ UNCHANGED progressVars /\ UNCHANGED tm

SpecBroadcast == InitBroadcast /\ [][NextBroadcast]_vars

\* The tracked messages: sends and clean-ups of the handlers in any order.
InitTracked == BotInit /\ tr = TrIdle /\ ProgressInit /\ BcInit /\ TmInit

NextTracked ==
  \/ \E i \in TmWorkers, user \in Users :
       TmClean(i, user)
         /\ UNCHANGED botVars /\ UNCHANGED tr /\ UNCHANGED progressVars /\ UNCHANGED bc
  \/ \E i \in TmWorkers, user \in Users :
       TmSend(i, user)
         /\ UNCHANGED botVars /\ UNCHANGED tr /\ UNCHANGED progressVars /\ UNCHANGED bc
  \/ \E i \in TmWorkers, ok \in BOOLEAN :
       TmSent(i, ok)
         /\ UNCHANGED botVars /\ UNCHANGED tr /\ UNCHANGED progressVars /\ UNCHANGED bc
  \/ \E i \in TmWorkers, ok \in BOOLEAN :
       TmDeleted(i, ok)
         /\ UNCHANGED botVars /\ UNCHANGED tr /\ UNCHANGED progressVars /\ UNCHANGED bc

SpecTracked == InitTracked /\ [][NextTracked]_vars

(***************************************************************************)
(* The properties of one call of handle_download_or_upload (SpecTransfer). *)
(***************************************************************************)

DownloadCalls == {"download_file", "download_youtube"}

\* The error texts handle_download_or_upload shows.
ErrorTexts ==
  {"edit_text:Download Failed", "edit_text:Upload Failed",
   "edit_text:Upload Preparation Failed", "reply_text:Process Failed"}

\* The positions of a call that has not let an exception escape.
Positions ==
  {"reply", "probe", "download", "download_failed", "upload_prepare", "send",
   "delete", "h_send", "h_upload", "h_download", "h_outer", "done"}

\* How often a call was made so far.
Count(call) == Cardinality({i \in DOMAIN tr.calls : tr.calls[i] = call})

\* C1: an upload call is made only after the download step has returned a
\* path that exists on disk: every send_video, send_audio or document call
\* comes after the download call, and when the download returned None or a
\* missing path no upload call is made and the function returns None.
C1_UploadOnlyAfterDownload ==
  /\ \A i \in DOMAIN tr.calls :
       tr.calls[i] \in UploadCalls =>
         /\ \E j \in 1..(i - 1) : tr.calls[j] \in DownloadCalls
         /\ tr.downloaded_file # <<>>
         /\ tr.exists
  /\ tr.download \in {"none", "missing"} =>
       /\ \A i \in DOMAIN tr.calls : tr.calls[i] \notin UploadCalls
       /\ tr.ret = <<>>

\* A call that has finished after an upload call.
C1_Witness ==
  /\ tr.pc = "done"
  /\ \E i \in DOMAIN tr.calls : tr.calls[i] \in UploadCalls
  /\ tr.download = "ok"

\* C8 as stated: no exception escapes, no step is repeated, and a failure
\* of the progress message, of the size probe, of the download or of the
\* upload ends in an error text and the result None; a path is returned
\* only when download and upload succeeded.
C8_EveryFailureEndsInNone ==
  /\ tr.pc \in Positions
  /\ \A call \in {"reply_text:Preparing Download", "session.head"}
                   \cup DownloadCalls \cup UploadCalls : Count(call) <= 1
  /\ (tr.pc = "done" /\ (\/ tr.reply_failed
                        \/ tr.probe_failed
                        \/ tr.download \in {"none", "missing", "raise"}
                        \/ tr.upload \in {"raise", "undefined"})) =>
       /\ tr.ret = <<>>
       /\ \E i \in DOMAIN tr.calls : tr.calls[i] \in ErrorTexts
  /\ tr.ret # <<>> => tr.download = "ok" /\ tr.upload = "ok"

\* C8 amended: no exception escapes and no step is repeated; a failure of
\* the progress message or of the size probe is absorbed without an error
\* text and the transfer goes on; a failure of the download or of the
\* upload call ends in an error text and the result None; a path, the one
\* of the downloaded file, is returned only when download and upload
\* succeeded.
C8_FailuresHandled ==
  /\ tr.pc \in Positions
  /\ \A call \in {"reply_text:Preparing Download", "session.head"}
                   \cup DownloadCalls \cup UploadCalls : Count(call) <= 1
  /\ tr.pc = "download" =>
       /\ \A i \in DOMAIN tr.calls : tr.calls[i] \notin ErrorTexts
       /\ tr.calls = <<"reply_text:Preparing Download", "session.head">>
  /\ (tr.pc = "done" /\ (\/ tr.download \in {"none", "missing", "raise"}
                        \/ tr.upload \in {"raise", "undefined"})) =>
       /\ tr.ret = <<>>
       /\ \E i \in DOMAIN tr.calls : tr.calls[i] \in ErrorTexts
  /\ tr.ret # <<>> =>
       tr.download = "ok" /\ tr.upload = "ok" /\ tr.ret = tr.downloaded_file

\* A call that returned the path although the progress message and the
\* size probe had failed.
C8_Witness ==
  tr.pc = "done" /\ tr.reply_failed /\ tr.probe_failed /\ tr.ret # <<>>

\* C10: a downloaded file that is neither video nor audio is uploaded as a
\* document and its path is returned, when no call to Telegram or to the
\* network fails.
C10_DocumentUploaded ==
  (/\ tr.pc = "done"
   /\ tr.download = "ok"
   /\ FileExtension(tr.downloaded_file) \notin VideoExtensions \cup AudioExtensions
   /\ ~tr.fault) =>
     /\ \E i \in DOMAIN tr.calls : tr.calls[i] = "send_file_with_thumbnail"
     /\ tr.upload = "ok"
     /\ tr.ret = tr.downloaded_file

(***************************************************************************)
(* The properties of the progress throttle (SpecProgress).                 *)
(***************************************************************************)

\* C9: a transfer's progress message is edited only when more than 5
\* seconds have passed since its last successful progress edit or when
\* current equals total, never when current is 0, and two successive edits
\* of it with current < total are at least 5 seconds apart.
C9_Throttle ==
  \A r \in Reporters :
    /\ pg[r].pc = "editing" =>
         /\ pg[r].current # 0
         /\ pg[r].partial => pg[r].now - edited[r].time > 5
    /\ edited[r].gap >= 5

(***************************************************************************)
(* The properties of the handlers (Spec).                                  *)
(***************************************************************************)

\* C2: a message that matches the YouTube pattern, in a chat with no
\* pending rename, whose download succeeded is followed by an upload call
\* for the downloaded file.
C2_YoutubeUploaded ==
  (last.op = "message" /\ last.kind = "youtube" /\ last.yt # <<>>) =>
    \E i \in DOMAIN last.calls :
      last.calls[i] \in UploadCalls \cup {"handle_download_or_upload"}

\* C3: each key of pending_downloads maps to the text of an earlier message
\* accepted as a direct URL, and a URL stored in pending_renames is, at the
\* moment the rename callback stores it, a value of pending_downloads; the
\* maps get their values from these two operations only.
C3_StoredFromLiveRequest ==
  /\ \A id \in DOMAIN pending_downloads :
       \E raw \in acceptedMsgs : pending_downloads[id] = Strip(raw)
  /\ \A chat \in DOMAIN pending_renames :
       \E raw \in acceptedMsgs : pending_renames[chat].url = Strip(raw)
  /\ (last.op = "callback" /\ last.kind = "rename_stored") =>
       \E id \in DOMAIN pending_downloads : pending_downloads[id] = last.url

\* C4: an entry of pending_downloads is removed only by the cancel|<id>
\* callback for its own id, every other step leaves the entries as they
\* are, and the map holds one entry for every accepted direct URL that was
\* not cancelled.
C4_RemovedOnlyByCancel ==
  /\ [](/\ DOMAIN pending_downloads = issued \ cancelled
        /\ Cardinality(DOMAIN pending_downloads)
             = Cardinality(issued) - Cardinality(cancelled))
  /\ [][\A id \in DOMAIN pending_downloads :
          IF id \in DOMAIN pending_downloads'
            THEN pending_downloads'[id] = pending_downloads[id]
            ELSE last'.op = "callback" /\ last'.text = L_cancel_cb \o id]_vars

\* A cancel callback has removed one entry while another one is kept,
\* quick downloads and transfers having come and gone.
C4_Witness ==
  /\ last.op = "callback" /\ last.kind = "cancel"
  /\ last.id \in cancelled
  /\ DOMAIN pending_downloads # {}

\* C5: when handle_message accepts a direct URL, the request id is not a
\* key of pending_downloads before, the URL is stored under it, the
\* keyboard offers exactly default|id, rename|id and cancel|id with that
\* id, and every other entry stays as it is.
C5_FreshRequest ==
  [][(last'.op = "message" /\ last'.kind = "direct") =>
       /\ last'.id \notin DOMAIN pending_downloads
       /\ DOMAIN pending_downloads' = DOMAIN pending_downloads \cup {last'.id}
       /\ pending_downloads'[last'.id] = Strip(last'.text)
       /\ \A id \in DOMAIN pending_downloads :
            pending_downloads'[id] = pending_downloads[id]
       /\ last'.keyboard = {L_default \o last'.id, L_rename \o last'.id,
                            L_cancel_cb \o last'.id}]_vars

\* A second request was accepted while the first one is still stored.
C5_Witness ==
  /\ last.op = "message" /\ last.kind = "direct"
  /\ Cardinality(DOMAIN pending_downloads) >= 2

\* The branch the patterns prescribe for each message text, read as
\* handle_message reads it (stripped of surrounding whitespace).
PatternBranch ==
  [raw \in MsgTexts |->
     IF YOUTUBE_REGEX(Strip(raw)) THEN "youtube"
     ELSE IF URL_REGEX(Strip(raw)) THEN "direct"
     ELSE "invalid"]

SlashTexts == {raw \in MsgTexts : Strip(raw)[1] = "/"}

\* C6: a message without a pending rename for its chat whose text (as
\* handle_message reads it, stripped) does not start with "/" is handled as
\* YouTube when it matches the YouTube pattern, also when it matches the
\* URL pattern too; as a direct URL when it matches the URL pattern only;
\* otherwise it gets the "valid direct download link or YouTube URL" reply
\* and neither map changes.
C6_Classification ==
  [][(/\ last'.op = "message"
      /\ last'.chat \notin DOMAIN pending_renames
      /\ last'.text \notin SlashTexts) =>
        CASE PatternBranch[last'.text] = "youtube" ->
               /\ last'.kind = "youtube"
               /\ last'.calls = <<"download_youtube">>
          [] PatternBranch[last'.text] = "direct" ->
               /\ last'.kind \in {"direct", "too_large", "url_error"}
               /\ last'.calls \in {<<"get_file_size", "get_filename">>,
                                   <<"get_file_size", "get_filename:raised">>}
          [] OTHER ->
               /\ last'.kind = "invalid"
               /\ last'.reply =
                    "Please send me a valid direct download link or YouTube URL"
               /\ pending_downloads' = pending_downloads
               /\ pending_renames' = pending_renames]_vars

\* A text that matches both patterns was handled as YouTube.
C6_Witness ==
  /\ last.op = "message" /\ last.kind = "youtube"
  /\ URL_REGEX(Strip(last.text))
  /\ last.chat \notin DOMAIN pending_renames

\* The texts that are "/cancel" for handle_message.
CancelTexts == {raw \in MsgTexts : Lower(Strip(raw)) = L_cancel}

\* C7 as stated: with a pending rename for the chat, the next text message
\* of the chat that is not "/cancel" starts a transfer of the stored URL
\* with the message text as custom file name, and the pending rename is
\* gone.
C7_NextMessageRenames ==
  [][(/\ last'.op \in {"message", "command"}
      /\ last'.chat \in DOMAIN pending_renames
      /\ last'.text \notin CancelTexts) =>
        /\ last'.kind = "rename"
        /\ last'.url = pending_renames[last'.chat].url
        /\ last'.custom = Strip(last'.text)
        /\ transfer' = transfer + 1
        /\ last'.chat \notin DOMAIN pending_renames']_vars

\* C7 amended: with a pending rename for the chat, the next text message of
\* the chat that is neither a /start, /help or /about command nor
\* "/cancel" starts a transfer of the stored URL with the message text as
\* custom file name, and the pending rename is gone.
C7_NextPlainMessageRenames ==
  [][(/\ last'.op = "message"
      /\ last'.chat \in DOMAIN pending_renames
      /\ last'.text \notin CancelTexts) =>
        /\ last'.kind = "rename"
        /\ last'.calls = <<"handle_download_or_upload">>
        /\ last'.url = pending_renames[last'.chat].url
        /\ last'.custom = Strip(last'.text)
        /\ transfer' = transfer + 1
        /\ last'.chat \notin DOMAIN pending_renames']_vars

\* A rename was taken by a message that starts with "/" while the request
\* it names is still stored.
C7_Witness ==
  /\ last.op = "message" /\ last.kind = "rename"
  /\ last.custom = T_x
  /\ last.url \in Range(pending_downloads)
  /\ last.chat \notin DOMAIN pending_renames

\* C12: with a pending rename for the chat, a message whose text is
\* "/cancel" after trimming, in any letter case, gets the reply "Rename
\* Process Cancelled", and when its handler has finished the pending rename
\* of the chat is removed; the handler starts no transfer and leaves
\* pending_downloads as it is.
C12_CancelRename ==
  [][/\ (/\ last'.op = "message"
         /\ last'.chat \in DOMAIN pending_renames
         /\ last'.text \in CancelTexts
         /\ last'.kind # "rename_cancel") =>
           /\ last'.kind = "rename_cancel_reply"
           /\ last'.reply = "Rename Process Cancelled"
           /\ cancelTask'.active /\ cancelTask'.chat = last'.chat
     /\ last'.kind \in {"rename_cancel_reply", "rename_cancel"} =>
           /\ transfer' = transfer
           /\ last'.calls = <<>>
           /\ pending_downloads' = pending_downloads
     /\ last'.kind = "rename_cancel" =>
           /\ last'.chat \notin DOMAIN pending_renames'
           /\ ~cancelTask'.active]_vars

\* A " /Cancel" message has removed the pending rename of its chat.
C12_Witness ==
  /\ last.op = "message" /\ last.kind = "rename_cancel"
  /\ last.text = T_Cancel
  /\ last.chat \notin DOMAIN pending_renames
  /\ pending_downloads # EmptyMap

\* The steps of callback_handler for a query with its message whose data
\* is default|<id> or rename|<id> with an id that is not a key of
\* pending_downloads.
ExpiredStep ==
  /\ last'.op = "callback"
  /\ last'.kind \notin {"empty", "no_message", "rename_stored", "rename_failed"}
  /\ CallbackTable[last'.text].branch \in {"default", "rename"}
  /\ CallbackTable[last'.text].file_id \notin DOMAIN pending_downloads

\* The calls that delete or edit the selection message.
SelectionCalls ==
  {"message.delete", "message.edit_text",
   "message.edit_text:An unexpected error occurred"}

\* C13 as stated: a default|<id> or rename|<id> callback whose id is not a
\* key of pending_downloads answers "Link expired", starts no transfer,
\* neither deletes nor edits the selection message and leaves both maps as
\* they are.
C13_ExpiredLeavesMessage ==
  [][ExpiredStep =>
       /\ last'.reply = "Link expired"
       /\ transfer' = transfer /\ renameTask' = renameTask
       /\ \A i \in DOMAIN last'.calls : last'.calls[i] \notin SelectionCalls
       /\ pending_downloads' = pending_downloads
       /\ pending_renames' = pending_renames]_vars

\* C13, amended: such a callback calls callback_query.answer with "Link
\* expired", starts no transfer, does not delete the selection message,
\* edits it only when that answer raises (the error text of the except
\* clause), and leaves both maps as they are.
C13_ExpiredEditsOnlyOnFailure ==
  [][ExpiredStep =>
       /\ last'.reply = "Link expired"
       /\ last'.kind \in {"default_expired", "rename_expired"}
       /\ transfer' = transfer /\ renameTask' = renameTask
       /\ \A i \in DOMAIN last'.calls :
            /\ last'.calls[i] \notin {"message.delete", "message.edit_text",
                                      "handle_download_or_upload"}
            /\ last'.calls[i] = "message.edit_text:An unexpected error occurred" =>
                 /\ i > 1
                 /\ last'.calls[i - 1] = "callback_query.answer:Link expired:raised"
       /\ \E i \in DOMAIN last'.calls :
            last'.calls[i] \in {"callback_query.answer:Link expired",
                                "callback_query.answer:Link expired:raised"}
       /\ pending_downloads' = pending_downloads
       /\ pending_renames' = pending_renames]_vars

\* A rename callback for a cancelled request found no entry, its "Link
\* expired" answer raised and the error text was edited into the message.
C13_Witness ==
  /\ last.op = "callback" /\ last.kind = "rename_expired"
  /\ last.id \in cancelled
  /\ last.calls[Len(last.calls)] = "message.edit_text:An unexpected error occurred"

\* The steps of callback_handler for a query with its message whose data
\* selects the given branches.
BranchStep(branches) ==
  /\ last'.op = "callback"
  /\ last'.kind \notin {"empty", "no_message", "rename_stored", "rename_failed"}
  /\ CallbackTable[last'.text].branch \in branches

\* C14: a cancel|<id> callback removes the key id from pending_downloads
\* and nothing else (nothing at all when the key is absent, so a repeated
\* cancel changes nothing), leaves pending_renames as it is and starts no
\* transfer; after it, every default|<id> or rename|<id> callback for that
\* id gets the "Link expired" answer and starts neither a transfer nor a
\* rename.
C14_CancelRemovesOneKey ==
  /\ [][BranchStep({"cancel"}) =>
          LET id == CallbackTable[last'.text].file_id
          IN  /\ last'.kind = "cancel"
              /\ DOMAIN pending_downloads' = DOMAIN pending_downloads \ {id}
              /\ \A k \in DOMAIN pending_downloads' :
                   pending_downloads'[k] = pending_downloads[k]
              /\ id \notin DOMAIN pending_downloads =>
                   pending_downloads' = pending_downloads
              /\ pending_renames' = pending_renames
              /\ transfer' = transfer /\ renameTask' = renameTask
              /\ (id \in issued) => (id \in cancelled')]_vars
  /\ [][(/\ BranchStep({"default", "rename"})
         /\ CallbackTable[last'.text].file_id \in cancelled) =>
          /\ last'.kind \in {"default_expired", "rename_expired"}
          /\ last'.reply = "Link expired"
          /\ transfer' = transfer /\ renameTask' = renameTask
          /\ pending_downloads' = pending_downloads]_vars
  /\ [](\A id \in cancelled : id \notin DOMAIN pending_downloads)

\* A quick download was asked for a cancelled request while another request
\* is still stored.
C14_Witness ==
  /\ last.op = "callback" /\ last.kind = "default_expired"
  /\ last.id \in cancelled
  /\ DOMAIN pending_downloads # {}

\* C15: with a pending rename for the chat, a message that reaches
\* handle_message and is not "/cancel" is taken as the file name whatever
\* it is (a URL, a text that starts with "/"): it is not classified, no
\* request is stored, the pending rename of the chat is gone when the
\* transfer starts, and the return of the transfer, failed or not, does not
\* bring it back.
C15_RenameConsumesAnyText ==
  /\ [][(/\ last'.op = "message"
         /\ last'.chat \in DOMAIN pending_renames
         /\ last'.text \notin CancelTexts) =>
          /\ last'.kind = "rename"
          /\ last'.custom = Strip(last'.text)
          /\ last'.url = pending_renames[last'.chat].url
          /\ last'.calls = <<"handle_download_or_upload">>
          /\ last'.keyboard = {}
          /\ pending_downloads' = pending_downloads
          /\ issued' = issued
          /\ last'.chat \notin DOMAIN pending_renames'
          /\ transfer' = transfer + 1]_vars
  /\ [][last'.kind = "transfer_return" =>
          /\ transfer' = transfer - 1
          /\ pending_renames' = pending_renames
          /\ pending_downloads' = pending_downloads]_vars

\* A text that matches the URL pattern was taken as the file name.
C15_Witness ==
  /\ last.op = "message" /\ last.kind = "rename"
  /\ URL_REGEX(Strip(last.text))
  /\ last.custom = Strip(last.text)
  /\ last.chat \notin DOMAIN pending_renames

\* C16: without a pending rename for the chat, a message that reaches
\* handle_message with a text that starts with "/" is ignored: no reply, no
\* call, no transfer, and both maps stay as they are.
C16_SlashIgnored ==
  [][(/\ last'.op = "message"
      /\ last'.chat \notin DOMAIN pending_renames
      /\ last'.text \in SlashTexts
      /\ last'.kind # "rename_cancel") =>
       /\ last'.kind = "ignored"
       /\ last'.reply = ""
       /\ last'.calls = <<>>
       /\ last'.keyboard = {}
       /\ transfer' = transfer
       /\ cancelTask' = cancelTask
       /\ issued' = issued
       /\ pending_downloads' = pending_downloads
       /\ pending_renames' = pending_renames]_vars

\* A "/cancel" in another letter case arrived with no rename pending, a
\* request being stored, and nothing happened.
C16_Witness ==
  /\ last.op = "message" /\ last.kind = "ignored"
  /\ last.text = T_Cancel
  /\ last.chat \notin DOMAIN pending_renames
  /\ DOMAIN pending_downloads # {}

\* The steps of handle_message that take the direct URL branch.
DirectStep ==
  /\ last'.op = "message"
  /\ last'.kind \in {"direct", "too_large", "url_error"}

\* C17 as stated: a direct URL whose reported size is above 2 GiB gets the
\* "too large" message, no entry in pending_downloads and no keyboard; one
\* whose size is 2 GiB, smaller or unknown (0) is accepted and adds exactly
\* one entry.
C17_SizeLimit ==
  [][DirectStep =>
       IF SizeGreater(last'.size, TwoGiB)
         THEN /\ last'.kind = "too_large"
              /\ last'.reply = "File size is too large"
              /\ last'.keyboard = {}
              /\ pending_downloads' = pending_downloads
         ELSE /\ last'.kind = "direct"
              /\ Cardinality(DOMAIN pending_downloads') =
                   Cardinality(DOMAIN pending_downloads) + 1]_vars

\* C17, amended: when get_filename returns, a direct URL whose reported
\* size is above 2 GiB gets the "too large" message and one whose size is
\* 2 GiB, smaller or unknown (0) is accepted, adds exactly one entry and
\* gets the keyboard for it; when get_filename raises, whatever the size,
\* the "Error processing URL" message is sent.  A URL that is not accepted
\* adds no entry and gets no keyboard.
C17_SizeLimitWhenNamed ==
  [][DirectStep =>
       /\ URL_REGEX(Strip(last'.text))
       /\ last'.calls[1] = "get_file_size"
       /\ IF last'.calls[2] = "get_filename:raised"
            THEN /\ last'.kind = "url_error"
                 /\ last'.reply = "Error processing URL"
          ELSE IF SizeGreater(last'.size, TwoGiB)
            THEN /\ last'.kind = "too_large"
                 /\ last'.reply = "File size is too large"
          ELSE /\ last'.kind = "direct"
               /\ last'.id \notin DOMAIN pending_downloads
               /\ DOMAIN pending_downloads' =
                    DOMAIN pending_downloads \cup {last'.id}
               /\ last'.keyboard = Keyboard(last'.id)
       /\ last'.kind # "direct" =>
            /\ last'.keyboard = {}
            /\ pending_downloads' = pending_downloads
            /\ issued' = issued
       /\ \A id \in DOMAIN pending_downloads :
            /\ id \in DOMAIN pending_downloads'
            /\ pending_downloads'[id] = pending_downloads[id]
       /\ transfer' = transfer /\ pending_renames' = pending_renames]_vars

\* A URL of exactly 2 GiB was accepted.
C17_Witness ==
  /\ last.op = "message" /\ last.kind = "direct"
  /\ last.size = TwoGiB
  /\ last.id \in DOMAIN pending_downloads

\* C18: for every callback query with data and a message, the first call
\* of callback_handler is callback_query.answer, whatever the data; it is
\* made once before the calls and updates of the branch, and the branch the
\* data selects runs whether that answer succeeded or raised.
C18_AnswerFirst ==
  [][(/\ last'.op = "callback"
      /\ last'.kind \notin {"empty", "no_message", "rename_stored",
                            "rename_failed"}) =>
       LET branch == CallbackTable[last'.text].branch
           id == CallbackTable[last'.text].file_id
           calls == last'.calls
       IN  /\ last'.text # <<>>
           /\ Len(calls) >= 1
           /\ calls[1] \in AnswerCalls
           /\ \A i \in 2..Len(calls) : calls[i] \notin AnswerCalls
           /\ CASE branch = "menu" ->
                     /\ last'.kind = "menu"
                     /\ calls[2] = "message.edit_text"
                [] branch = "close" ->
                     /\ last'.kind = "close"
                     /\ calls[2] = "message.delete"
                [] branch = "default" ->
                     IF id \in DOMAIN pending_downloads
                       THEN /\ last'.kind = "default"
                            /\ calls[Len(calls)] = "handle_download_or_upload"
                            /\ transfer' = transfer + 1
                       ELSE /\ last'.kind = "default_expired"
                            /\ Len(calls) >= 2
                [] branch = "rename" ->
                     IF id \in DOMAIN pending_downloads
                       THEN /\ last'.kind = "rename_prompt"
                            /\ calls[2] = "message.edit_text"
                            /\ renameTask'.active
                       ELSE /\ last'.kind = "rename_expired"
                            /\ Len(calls) >= 2
                [] branch = "cancel" ->
                     /\ last'.kind = "cancel"
                     /\ id \notin DOMAIN pending_downloads'
                     /\ calls[2] = "message.delete"
                [] OTHER ->
                     /\ last'.kind = "unknown"
                     /\ last'.reply = "Invalid button"]_vars

\* The first answer of a cancel callback raised and the entry was removed
\* all the same.
C18_Witness ==
  /\ last.op = "callback" /\ last.kind = "cancel"
  /\ last.calls[1] = "callback_query.answer:raised"
  /\ last.id \in cancelled
  /\ last.id \notin DOMAIN pending_downloads

(***************************************************************************)
(* The properties of the /broadcast command (SpecBroadcast).               *)
(***************************************************************************)

\* C11: a /broadcast message leads to a send_message or copy_message to a
\* user only when its sender is the owner and it replies to a message;
\* when the sender is not the owner or the message is no reply, exactly
\* one error reply is sent and nothing is sent to any user.
C11_BroadcastRefusal ==
  (bc.pc = "done" /\ CommandFilter(bc.raw, L_broadcast)) =>
    /\ bc.sends > 0 => bc.from_owner /\ bc.is_reply
    /\ (~bc.from_owner \/ ~bc.is_reply) =>
         /\ Len(bc.replies) = 1
         /\ bc.replies[1] \in {"You are not authorized to use this command",
                               "Please reply to a message you want to broadcast"}
         /\ bc.sends = 0

(***************************************************************************)
(* The properties of the tracked messages (SpecTracked).                   *)
(***************************************************************************)

\* The last n elements of a sequence (all of it when it is shorter).
LastOf(seq, n) ==
  IF Len(seq) <= n THEN seq ELSE SubSeq(seq, Len(seq) - n + 1, Len(seq))

\* C19: when clean_previous_messages returns for a user, the user's list in
\* recent_bot_messages holds at most three ids, which are the ids appended
\* last (of the messages whose send returned last), in that order; at any
\* time the ids taken out are the oldest ones, in the order they were
\* appended, and an id whose deletion failed is out of the list as well.
C19_KeepsLastThree ==
  /\ tm.last.op = "clean_return" =>
       LET user == tm.last.user
       IN  /\ user \in DOMAIN tm.recent
           /\ Len(tm.recent[user]) <= max_messages
           /\ tm.recent[user] = LastOf(tm.appended[user], max_messages)
  /\ \A user \in Users :
       /\ tm.removed[user] \o UserMessages(tm.recent, user) = tm.appended[user]
       /\ \A k \in DOMAIN tm.removed[user] :
            tm.removed[user][k] = tm.appended[user][k]
  /\ \A id \in tm.failed :
       \A user \in Users : id \notin Range(UserMessages(tm.recent, user))

\* A clean-up returned for a user who was sent five messages, the deletion
\* of one of the removed ones having failed.
C19_Witness ==
  /\ tm.last.op = "clean_return"
  /\ Len(tm.appended[tm.last.user]) >= max_messages + 2
  /\ Len(tm.recent[tm.last.user]) = max_messages
  /\ \E id \in tm.failed : id \in Range(tm.removed[tm.last.user])

====
